---- MODULE Spec2Model ----
(***************************************************************************)
(* Plontis Central API (src/handler.py): the request router, the detection *)
(* and registration stores, the per-site insights query and the            *)
(* market-intelligence aggregation with its self-healing repair.           *)
(*                                                                         *)
(* The MySQL store is modelled by its two tables.  A detections row keeps  *)
(* the columns that some query of handler.py reads (site_hash, company,    *)
(* estimated_value, detected_at); the remaining columns are written once   *)
(* and never read.  Time is counted in whole days.                         *)
(***************************************************************************)
EXTENDS Integers, Sequences, FiniteSets, TLC

VARIABLES
    detections,      \* the detections table, in storage order (row id = index)
    registrations,   \* the api_registrations table, in storage order
    now,             \* NOW() of the database, in days
    envConfigured,   \* DB_HOST, DB_USER, DB_PASSWORD and DB_NAME are all set
    tableExists,     \* the detections table exists in the database
    mi,              \* the market-intelligence requests in flight, per request slot
    last             \* the request api_handler answered last, with its response

vars == <<detections, registrations, now, envConfigured, tableExists, mi, last>>

-----------------------------------------------------------------------------
(* Program constants *)

MinKeyLen == 10      \* validate_api_key: len(api_key) < 10 is rejected
StatsWindow == 30    \* INTERVAL 30 DAY of the statistics and insights queries
ActiveWindow == 7    \* INTERVAL 7 DAY of the most-active-company query

(* Bounds of the model *)

MaxRows == 2         \* detections rows the model stores at most
MaxRegs == 2         \* api_registrations rows the model stores at most
MaxTicks == 1        \* times the clock advances

TickDays == StatsWindow - 5   \* days one advance of the clock adds

(* Values *)

NULL == "NULL"       \* SQL NULL, JSON null, Python None (in string positions)
None == <<>>         \* Python None where the value is otherwise a number or object
Some(x) == <<x>>

correct_site_hash == "f51bc27669e6f0c9cd71fe4dae0c03f44d461738e7e45b615188398def349678"

\* f'{prefix}{arg}': the formatted string, as its literal part and its argument
Fstr(prefix, arg) == <<prefix, arg>>
Str(s) == <<s>>
StartsWith(s, prefix) == Len(s) >= 1 /\ s[1] = prefix

required_fields == <<"site_hash", "company", "content_type", "estimated_value", "detected_at">>

-----------------------------------------------------------------------------
(* SQL predicates and aggregates over the detections table *)

HashValid(r) == r.site_hash # NULL /\ r.site_hash # ""      \* IS NOT NULL AND != ''
HashInvalid(r) == r.site_hash = NULL \/ r.site_hash = ""    \* IS NULL OR = ''

InWindow_unbounded(r, t, days) == TRUE

\* detected_at > DATE_SUB(NOW(), INTERVAL days DAY)
InWindow(r, t, days) == r.detected_at > t - days

RowIds(tbl) == 1..Len(tbl)

\* SELECT COUNT(*) ... WHERE site_hash IS NOT NULL AND site_hash != ''
CountValid(tbl) == Cardinality({i \in RowIds(tbl) : HashValid(tbl[i])})
\* SELECT COUNT(*) ... WHERE site_hash IS NULL OR site_hash = ''
CountInvalid(tbl) == Cardinality({i \in RowIds(tbl) : HashInvalid(tbl[i])})

RECURSIVE SumOver(_, _)
SumOver(tbl, ids) ==
    IF ids = {} THEN 0
    ELSE LET i == CHOOSE j \in ids : TRUE
         IN tbl[i].estimated_value + SumOver(tbl, ids \ {i})

-----------------------------------------------------------------------------
(* Responses *)

JsonHeaders == {<<"Content-Type", "application/json">>}
CorsHeaders == JsonHeaders \cup {<<"Access-Control-Allow-Origin", "*">>}

Response(code, headers, body) == [statusCode |-> code, headers |-> headers, body |-> body]
ErrorBody(msg) == [error |-> msg]

-----------------------------------------------------------------------------
(* validate_api_key *)

validate_api_key_short9(api_key) == ~(api_key = "" \/ Len(api_key) < MinKeyLen - 1)

validate_api_key(api_key) == ~(api_key = "" \/ Len(api_key) < MinKeyLen)

\* headers.get(name, default) on a dict
DictGet(d, name, default) == IF name \in DOMAIN d THEN d[name] ELSE default

-----------------------------------------------------------------------------
(* get_db_connection.  cause is what happens to this call: "ok",           *)
(* "connect_error" (pymysql.connect raises) or "query_error" (the test     *)
(* query raises).  The result is the connection (Some) or None, whether a  *)
(* network connection was attempted, and whether a session stays open that *)
(* the caller never gets (the test query failed after connect succeeded).  *)

ConnCauses == {"ok", "connect_error", "query_error"}

\* What the store does to one request: its connection fails (a ConnCause), or
\* the statement the handler executes raises ("exec_error"), or all goes well.
Fates == ConnCauses \cup {"exec_error"}
ConnCause(fate) == IF fate = "exec_error" THEN "ok" ELSE fate

get_db_connection_nocheck(cause) ==
    IF ~envConfigured \/ cause = "connect_error"
    THEN [connection |-> None, attempted |-> TRUE, leaked |-> 0, raised |-> FALSE]
    ELSE IF cause = "query_error" \/ ~tableExists
    THEN [connection |-> None, attempted |-> TRUE, leaked |-> 1, raised |-> FALSE]
    ELSE [connection |-> Some("open"), attempted |-> TRUE, leaked |-> 0, raised |-> FALSE]

\* raised: whether the call ends in an exception; the whole body is inside
\* try ... except Exception, which returns None
get_db_connection(cause) ==
    IF ~envConfigured
    THEN [connection |-> None, attempted |-> FALSE, leaked |-> 0, raised |-> FALSE]
    ELSE IF cause = "connect_error"
    THEN [connection |-> None, attempted |-> TRUE, leaked |-> 0, raised |-> FALSE]
    ELSE IF cause = "query_error" \/ ~tableExists
    THEN [connection |-> None, attempted |-> TRUE, leaked |-> 1, raised |-> FALSE]
    ELSE [connection |-> Some("open"), attempted |-> TRUE, leaked |-> 0, raised |-> FALSE]

-----------------------------------------------------------------------------
(* Requests.  A path is the sequence of its segments after the leading     *)
(* slash: "/" is <<"">> and "/v1/insights/abc" is <<"v1","insights","abc">>.*)
(* headers is the event's "headers": a dict, or None (isNone).  body is    *)
(* the event's "body" by what json.loads makes of it: an object (data is   *)
(* the dict), malformed text, a JSON number, or None.                      *)

Event(method, path, headers, body) ==
    [httpMethod |-> method, path |-> path, headers |-> headers, body |-> body]

NoneHeaders == [isNone |-> TRUE, d |-> <<>>]
Headers(d) == [isNone |-> FALSE, d |-> d]
KeyHeaders(Keys) == {Headers(<<>>)} \cup {Headers("x-api-key" :> k) : k \in Keys}

ObjectBody(data) == [kind |-> "object", data |-> data]
MalformedBody == [kind |-> "malformed", data |-> <<>>]
NumberBody == [kind |-> "number", data |-> <<>>]
NoneBody == [kind |-> "none", data |-> <<>>]

\* the dicts that carry the fields of Present, with the values of full
Restrict(full, Present) == [k \in Present |-> full[k]]

\* path.startswith('/v1/insights/')
IsInsightsPath(path) == Len(path) >= 3 /\ path[1] = "v1" /\ path[2] = "insights"

Route_anymethod(method, path) ==
    IF path = <<"v1", "market-intelligence">> THEN "market-intelligence"
    ELSE IF path = <<"v1", "detections">> THEN "detections"
    ELSE IF path = <<"v1", "register">> THEN "register"
    ELSE IF IsInsightsPath(path) THEN "insights"
    ELSE IF path = <<"">> THEN "root"
    ELSE "none"

\* api_handler's routing table, in the order of its if/elif chain
Route(method, path) ==
    IF method = "GET" /\ path = <<"v1", "market-intelligence">> THEN "market-intelligence"
    ELSE IF method = "POST" /\ path = <<"v1", "detections">> THEN "detections"
    ELSE IF method = "POST" /\ path = <<"v1", "register">> THEN "register"
    ELSE IF method = "GET" /\ IsInsightsPath(path) THEN "insights"
    ELSE IF method = "GET" /\ path = <<"">> THEN "root"
    ELSE "none"

\* api_handler's answers of its own: GET / and the final else
RootResponse(path) ==
    Response(200, JsonHeaders,
             [message |-> "Plontis Central API", status |-> "running", path_received |-> path])

NotFound(path, method) ==
    Response(404, JsonHeaders,
             [error |-> Str("Endpoint not found"), path_received |-> path, method |-> method])

\* api_handler's except clause: the exception text goes into "details"
ApiCatchAll(exc) ==
    Response(500, JsonHeaders, [error |-> Str("Internal server error"), details |-> Str(exc)])

-----------------------------------------------------------------------------
(* store_detection(data).  cause is the fate of its get_db_connection,     *)
(* execFails whether the INSERT raises.  Gives the returned id (or None),  *)
(* the table afterwards and the sessions left open.                        *)

DetectionRow(data) ==
    [site_hash |-> data["site_hash"], company |-> data["company"],
     estimated_value |-> data["estimated_value"], detected_at |-> data["detected_at"]]

store_detection_overwrite(data, cause, execFails) ==
    LET c == get_db_connection(cause)
    IN IF c.connection = None
       THEN [detection_id |-> None, table |-> detections, leaked |-> c.leaked]
       ELSE IF execFails
       THEN [detection_id |-> None, table |-> detections, leaked |-> 0]
       ELSE IF detections = <<>>
       THEN [detection_id |-> Some(1), table |-> <<DetectionRow(data)>>, leaked |-> 0]
       ELSE [detection_id |-> Some(Len(detections)),
             table |-> [detections EXCEPT ![Len(detections)] = DetectionRow(data)],
             leaked |-> 0]

store_detection(data, cause, execFails) ==
    LET c == get_db_connection(cause)
    IN IF c.connection = None
       THEN [detection_id |-> None, table |-> detections, leaked |-> c.leaked]
       ELSE IF execFails
       THEN [detection_id |-> None, table |-> detections, leaked |-> 0]
       ELSE [detection_id |-> Some(Len(detections) + 1),
             table |-> Append(detections, DetectionRow(data)), leaked |-> 0]

FirstMissing_last(data) ==
    LET missing == {i \in 1..Len(required_fields) : required_fields[i] \notin DOMAIN data}
    IN IF missing = {} THEN None
       ELSE Some(required_fields[CHOOSE i \in missing : \A j \in missing : i >= j])

\* the first required field that is not a key of data, or None
FirstMissing(data) ==
    LET missing == {i \in 1..Len(required_fields) : required_fields[i] \notin DOMAIN data}
    IN IF missing = {} THEN None
       ELSE Some(required_fields[CHOOSE i \in missing : \A j \in missing : i <= j])

handle_detection_report_parsefirst(body, headers, cause, execFails) ==
    LET unchanged(resp) == [resp |-> resp, table |-> detections, usedStore |-> FALSE, leaked |-> 0]
        failed == Response(500, JsonHeaders, ErrorBody(Str("Failed to process detection report")))
    IN IF body.kind = "none" THEN unchanged(failed)
       ELSE IF body.kind = "malformed"
       THEN unchanged(Response(400, JsonHeaders, ErrorBody(Str("Invalid JSON"))))
       ELSE IF headers.isNone THEN unchanged(failed)
       ELSE IF ~validate_api_key(DictGet(headers.d, "x-api-key", ""))
       THEN unchanged(Response(401, JsonHeaders, ErrorBody(Str("Invalid API key"))))
       ELSE IF body.kind = "number" THEN unchanged(failed)
       ELSE IF FirstMissing(body.data) # None
       THEN unchanged(Response(400, JsonHeaders,
                ErrorBody(Fstr("Missing required field: ", FirstMissing(body.data)[1]))))
       ELSE LET st == store_detection(body.data, cause, execFails)
            IN [resp |-> Response(200, JsonHeaders,
                            [success |-> TRUE, detection_id |-> st.detection_id]),
                table |-> st.table, usedStore |-> TRUE, leaked |-> st.leaked]

handle_detection_report_storefirst(body, headers, cause, execFails) ==
    LET unchanged(resp) == [resp |-> resp, table |-> detections, usedStore |-> FALSE, leaked |-> 0]
        failed == Response(500, JsonHeaders, ErrorBody(Str("Failed to process detection report")))
        partial == [site_hash |-> DictGet(body.data, "site_hash", NULL),
                    company |-> DictGet(body.data, "company", NULL),
                    estimated_value |-> DictGet(body.data, "estimated_value", 0),
                    detected_at |-> DictGet(body.data, "detected_at", 0)]
    IN IF headers.isNone THEN unchanged(failed)
       ELSE IF ~validate_api_key(DictGet(headers.d, "x-api-key", ""))
       THEN unchanged(Response(401, JsonHeaders, ErrorBody(Str("Invalid API key"))))
       ELSE IF body.kind = "none" THEN unchanged(failed)
       ELSE IF body.kind = "malformed"
       THEN unchanged(Response(400, JsonHeaders, ErrorBody(Str("Invalid JSON"))))
       ELSE IF body.kind = "number" THEN unchanged(failed)
       ELSE IF FirstMissing(body.data) # None
       THEN [resp |-> Response(400, JsonHeaders,
                        ErrorBody(Fstr("Missing required field: ", FirstMissing(body.data)[1]))),
             table |-> IF get_db_connection(cause).connection = None \/ execFails
                       THEN detections ELSE Append(detections, partial),
             usedStore |-> TRUE, leaked |-> 0]
       ELSE LET st == store_detection(body.data, cause, execFails)
            IN [resp |-> Response(200, JsonHeaders,
                            [success |-> TRUE, detection_id |-> st.detection_id]),
                table |-> st.table, usedStore |-> TRUE, leaked |-> st.leaked]

(* handle_detection_report(body, headers): the response, the table         *)
(* afterwards and the sessions left open.                                  *)

handle_detection_report(body, headers, cause, execFails) ==
    LET unchanged(resp) == [resp |-> resp, table |-> detections, usedStore |-> FALSE, leaked |-> 0]
        failed == Response(500, JsonHeaders, ErrorBody(Str("Failed to process detection report")))
    IN IF headers.isNone THEN unchanged(failed)          \* headers.get raises AttributeError
       ELSE IF ~validate_api_key(DictGet(headers.d, "x-api-key", ""))
       THEN unchanged(Response(401, JsonHeaders, ErrorBody(Str("Invalid API key"))))
       ELSE IF body.kind = "none" THEN unchanged(failed)  \* json.loads(None) raises TypeError
       ELSE IF body.kind = "malformed"
       THEN unchanged(Response(400, JsonHeaders, ErrorBody(Str("Invalid JSON"))))
       ELSE IF body.kind = "number" THEN unchanged(failed) \* 'field not in 5' raises TypeError
       ELSE IF FirstMissing(body.data) # None
       THEN unchanged(Response(400, JsonHeaders,
                ErrorBody(Fstr("Missing required field: ", FirstMissing(body.data)[1]))))
       ELSE LET st == store_detection(body.data, cause, execFails)
            IN [resp |-> Response(200, JsonHeaders,
                            [success |-> TRUE, detection_id |-> st.detection_id]),
                table |-> st.table, usedStore |-> TRUE, leaked |-> st.leaked]

-----------------------------------------------------------------------------
(* get_site_insights(site_hash, headers).                                  *)

InsightRows_anysite(tbl, site_hash, t) ==
    {i \in RowIds(tbl) : InWindow(tbl[i], t, StatsWindow)}

\* the rows the insights query selects: site_hash = %s within the 30 days
InsightRows(tbl, site_hash, t) ==
    {i \in RowIds(tbl) : tbl[i].site_hash = site_hash /\ InWindow(tbl[i], t, StatsWindow)}

\* one row of the result: GROUP BY company with COUNT(*), AVG and SUM
InsightGroup(tbl, ids, company) ==
    LET g == {i \in ids : tbl[i].company = company}
    IN [company |-> company, detections |-> Cardinality(g),
        avg_value |-> [sum |-> SumOver(tbl, g), count |-> Cardinality(g)],
        total_value |-> SumOver(tbl, g)]

OrderedByTotal_ascending(rows) ==
    \A i, j \in 1..Len(rows) : i < j => rows[i].total_value <= rows[j].total_value

\* ORDER BY total_value DESC
OrderedByTotal(rows) == \A i, j \in 1..Len(rows) : i < j => rows[i].total_value >= rows[j].total_value

\* the result sets the query may return: one row per company, ordered by
\* total_value descending, rows of equal total in any order
InsightResults(tbl, site_hash, t) ==
    LET ids == InsightRows(tbl, site_hash, t)
        groups == {InsightGroup(tbl, ids, c) : c \in {tbl[i].company : i \in ids}}
        n == Cardinality(groups)
    IN {rows \in [1..n -> groups] :
            /\ \A i, j \in 1..n : i # j => rows[i] # rows[j]
            /\ OrderedByTotal(rows)}

\* raised: the exception the call lets escape (None when it returns resp)
get_site_insights(site_hash, headers, cause, execFails, results) ==
    LET ret(resp, used, leaked) ==
            [raised |-> None, resp |-> resp, usedStore |-> used, leaked |-> leaked]
        c == get_db_connection(cause)
    IN IF headers.isNone        \* headers.get, outside any try: AttributeError escapes
       THEN [raised |-> Some("'NoneType' object has no attribute 'get'"),
             resp |-> Response(0, {}, <<>>), usedStore |-> FALSE, leaked |-> 0]
       ELSE IF ~validate_api_key(DictGet(headers.d, "x-api-key", ""))
       THEN ret(Response(401, JsonHeaders, ErrorBody(Str("Invalid API key"))), FALSE, 0)
       ELSE IF c.connection = None
       THEN ret(Response(500, JsonHeaders, ErrorBody(Str("Database unavailable"))), TRUE, c.leaked)
       ELSE IF execFails
       THEN ret(Response(500, JsonHeaders, ErrorBody(Str("Failed to get site insights"))), TRUE, 0)
       ELSE ret(Response(200, JsonHeaders,
                    [site_hash |-> site_hash, period |-> "30_days",
                     company_breakdown |-> results]), TRUE, 0)

-----------------------------------------------------------------------------
(* handle_registration(body, headers).                                     *)

\* a timestamp column: the value written, or the column's default when the
\* statement that created the row named no value for it
Written(t) == [written |-> TRUE, at |-> t]
ColumnDefault == [written |-> FALSE, at |-> 0]

\* the unique key of api_registrations that ON DUPLICATE KEY UPDATE acts on
UniqueKey(row) == row.api_key

\* the rows of tbl that collide with key
Duplicates(tbl, key) == {i \in 1..Len(tbl) : UniqueKey(tbl[i]) = key}

\* the VALUES of the INSERT, from the parsed body, at time t
RegistrationRow(data, t) ==
    [api_key |-> data["api_key"],
     site_hash |-> data["site_hash"],
     site_url_hash |-> DictGet(data, "site_url_hash", ""),
     wordpress_version |-> DictGet(data, "wordpress_version", ""),
     plugin_version |-> DictGet(data, "plugin_version", ""),
     registered_at |-> DictGet(data, "registered_at", t),      \* default datetime.now()
     last_seen |-> ColumnDefault]

UpsertRegistration_sitehash(tbl, data, t) ==
    LET row == RegistrationRow(data, t)
        dup == Duplicates(tbl, row.api_key)
    IN IF dup = {} THEN Append(tbl, row)
       ELSE [i \in 1..Len(tbl) |->
                IF i \in dup
                THEN [tbl[i] EXCEPT !.last_seen = Written(t),
                                    !.plugin_version = DictGet(data, "plugin_version", ""),
                                    !.site_hash = row.site_hash]
                ELSE tbl[i]]

UpsertRegistration_replace(tbl, data, t) ==
    LET row == RegistrationRow(data, t)
        dup == Duplicates(tbl, row.api_key)
    IN IF dup = {} THEN Append(tbl, row)
       ELSE [i \in 1..Len(tbl) |->
                IF i \in dup THEN [row EXCEPT !.last_seen = Written(t)] ELSE tbl[i]]

\* INSERT ... ON DUPLICATE KEY UPDATE last_seen = NOW(), plugin_version = %s
UpsertRegistration(tbl, data, t) ==
    LET row == RegistrationRow(data, t)
        dup == Duplicates(tbl, row.api_key)
    IN IF dup = {} THEN Append(tbl, row)
       ELSE [i \in 1..Len(tbl) |->
                IF i \in dup
                THEN [tbl[i] EXCEPT !.last_seen = Written(t),
                                    !.plugin_version = DictGet(data, "plugin_version", "")]
                ELSE tbl[i]]

handle_registration(body, headers, cause, execFails) ==
    LET ret(resp, tbl, used, leaked) ==
            [resp |-> resp, table |-> tbl, usedStore |-> used, leaked |-> leaked]
        failed == Response(400, JsonHeaders, ErrorBody(Str("Registration failed")))
        c == get_db_connection(cause)
    IN IF body.kind # "object" THEN ret(failed, registrations, FALSE, 0)   \* json.loads raises
       ELSE IF "api_key" \notin DOMAIN body.data \/ "site_hash" \notin DOMAIN body.data
       THEN ret(failed, registrations, FALSE, 0)                           \* KeyError
       ELSE IF c.connection = None
       THEN ret(Response(500, JsonHeaders, ErrorBody(Str("Database unavailable"))),
                registrations, TRUE, c.leaked)
       ELSE IF execFails
       THEN ret(failed, registrations, TRUE, 1)      \* except: connection.close() is skipped
       ELSE ret(Response(200, JsonHeaders, [success |-> TRUE, registered |-> TRUE]),
                UpsertRegistration(registrations, body.data, now), TRUE, 0)

-----------------------------------------------------------------------------
(* get_market_intelligence and fix_site_hash_in_lambda.                    *)

get_fallback_stats_noprefix(reason) ==
    [total_sites |-> 1, total_detections |-> 0, average_value_per_detection |-> 0,
     most_active_company |-> "N/A", status |-> Str(reason)]

\* get_fallback_stats(reason)
get_fallback_stats(reason) ==
    [total_sites |-> 1, total_detections |-> 0, average_value_per_detection |-> 0,
     most_active_company |-> "N/A", status |-> Fstr("fallback_", reason)]

\* round(float(avg), 2) of sum / n, in hundredths (0 for the NULL average of no rows)
Round2(sum, n) == IF n = 0 THEN 0 ELSE (200 * sum + n) \div (2 * n)

\* the rows the statistics query aggregates
StatRows_unwindowed(tbl, t) == {i \in RowIds(tbl) : HashValid(tbl[i])}

StatRows(tbl, t) ==
    {i \in RowIds(tbl) : HashValid(tbl[i]) /\ InWindow(tbl[i], t, StatsWindow)}

\* the rows the most-active-company query groups
ActiveRows(tbl, t) ==
    {i \in RowIds(tbl) : /\ HashValid(tbl[i])
                         /\ InWindow(tbl[i], t, ActiveWindow)
                         /\ tbl[i].company # NULL}

\* GROUP BY company ORDER BY count DESC LIMIT 1: any company with the highest
\* count, or 'N/A' when the query returns no row
MostActive(tbl, t) ==
    LET ids == ActiveRows(tbl, t)
        count(c) == Cardinality({i \in ids : tbl[i].company = c})
        companies == {tbl[i].company : i \in ids}
    IN IF ids = {} THEN {"N/A"}
       ELSE {c \in companies : \A d \in companies : count(c) >= count(d)}

LiveStats_rowsites(tbl, t, most_active, status) ==
    LET ids == StatRows(tbl, t)
    IN [total_sites |-> Cardinality(ids),
        total_detections |-> Cardinality(ids),
        average_value_per_detection |-> Round2(SumOver(tbl, ids), Cardinality(ids)),
        most_active_company |-> most_active,
        status |-> Str(status)]

\* the stats dict built from the two queries, tagged status
LiveStats(tbl, t, most_active, status) ==
    LET ids == StatRows(tbl, t)
    IN [total_sites |-> Cardinality({tbl[i].site_hash : i \in ids}),
        total_detections |-> Cardinality(ids),
        average_value_per_detection |-> Round2(SumOver(tbl, ids), Cardinality(ids)),
        most_active_company |-> most_active,
        status |-> Str(status)]

RepairedTable_nullonly(tbl) ==
    [i \in RowIds(tbl) |->
        IF tbl[i].site_hash = NULL THEN [tbl[i] EXCEPT !.site_hash = correct_site_hash]
        ELSE tbl[i]]

RepairedTable_all(tbl) ==
    [i \in RowIds(tbl) |-> [tbl[i] EXCEPT !.site_hash = correct_site_hash]]

\* UPDATE detections SET site_hash = %s WHERE site_hash IS NULL OR site_hash = ''
RepairedTable(tbl) ==
    [i \in RowIds(tbl) |->
        IF HashInvalid(tbl[i]) THEN [tbl[i] EXCEPT !.site_hash = correct_site_hash]
        ELSE tbl[i]]

\* the response get_market_intelligence returns with stats
StatsResponse(stats) == Response(200, CorsHeaders, stats)

\* connection.close() on a connection that is closed already: pymysql raises
AlreadyClosed == "Already closed"

\* the response of the outermost except clause (handler.py:348-356)
MarketError(exc) ==
    Response(500, JsonHeaders, ErrorBody(Fstr("Market intelligence error: ", exc)))

\* The locals of one get_market_intelligence call.  connection is what the
\* variable of that name holds ("none": None).  leaked counts the sessions the
\* call has opened and not closed, closeErrors the close() calls that raised,
\* errors holds the error lines the call has logged.
MiLocals(pc) ==
    [pc |-> pc, connection |-> "none", valid_hash_count |-> 0, invalid_hash_count |-> 0,
     null_count |-> 0, fix_success |-> "unset", fixed_count |-> 0,
     leaked |-> 0, closeErrors |-> 0, errors |-> {}, resp |-> Response(0, {}, <<>>)]

Logged(loc, line) == [loc EXCEPT !.errors = loc.errors \cup {line}]

\* the locals after a get_db_connection that gave c
Connected(loc, c) ==
    LET l == [loc EXCEPT !.leaked = loc.leaked + c.leaked]
    IN IF c.connection = None THEN Logged(l, "Database connection failed") ELSE l

MiDone(loc, resp) == [loc EXCEPT !.pc = "done", !.resp = resp]

\* handler.py:322-331 with connection already closed: close() raises inside the
\* try, the except clause closes again, and that error reaches the outer except
FixFailedReturn(loc) ==
    MiDone([loc EXCEPT !.fix_success = "False", !.closeErrors = 2,
                       !.errors = loc.errors \cup {"Database operation error",
                                                   "Market intelligence error"}],
           MarketError(AlreadyClosed))

MiStart_anyinvalid(tbl, t, fate, most_active) ==
    LET c == get_db_connection(ConnCause(fate))
        start == Connected(MiLocals("start"), c)
        counted == [start EXCEPT !.valid_hash_count = CountValid(tbl),
                                 !.invalid_hash_count = CountInvalid(tbl)]
    IN IF c.connection = None
       THEN MiDone(start, StatsResponse(get_fallback_stats("no_database_connection")))
       ELSE IF fate = "exec_error"
       THEN MiDone(Logged([start EXCEPT !.connection = "closed"], "Database operation error"),
                   StatsResponse(get_fallback_stats("database_operation_error")))
       ELSE IF ~tableExists
       THEN MiDone([start EXCEPT !.connection = "closed"],
                   StatsResponse(get_fallback_stats("no_detections_table")))
       ELSE IF CountInvalid(tbl) > 0
       THEN [counted EXCEPT !.pc = "fix", !.connection = "closed"]
       ELSE MiDone([counted EXCEPT !.connection = "closed"],
                   StatsResponse(LiveStats(tbl, t, most_active, "live_data")))

\* handler.py:176-212 and 280-346: connect, count, and answer unless the
\* defect (no valid site_hash, some invalid) calls for the repair
MiStart(tbl, t, fate, most_active) ==
    LET c == get_db_connection(ConnCause(fate))
        start == Connected(MiLocals("start"), c)
        counted == [start EXCEPT !.valid_hash_count = CountValid(tbl),
                                 !.invalid_hash_count = CountInvalid(tbl)]
    IN IF c.connection = None
       THEN MiDone(start, StatsResponse(get_fallback_stats("no_database_connection")))
       ELSE IF fate = "exec_error"
       THEN MiDone(Logged([start EXCEPT !.connection = "closed"], "Database operation error"),
                   StatsResponse(get_fallback_stats("database_operation_error")))
       ELSE IF ~tableExists
       THEN MiDone([start EXCEPT !.connection = "closed"],
                   StatsResponse(get_fallback_stats("no_detections_table")))
       ELSE IF CountValid(tbl) = 0 /\ CountInvalid(tbl) > 0
       THEN [counted EXCEPT !.pc = "fix", !.connection = "closed"]
       ELSE MiDone([counted EXCEPT !.connection = "closed"],
                   StatsResponse(LiveStats(tbl, t, most_active, "live_data")))

MiFixCount_strict(loc, tbl, fate) ==
    LET c == get_db_connection(ConnCause(fate))
        l == Connected(loc, c)
    IN IF c.connection = None THEN FixFailedReturn(l)
       ELSE IF fate = "exec_error" THEN FixFailedReturn(Logged(l, "Lambda fix error"))
       ELSE IF CountInvalid(tbl) > 0
       THEN [l EXCEPT !.pc = "update", !.null_count = CountInvalid(tbl)]
       ELSE FixFailedReturn(l)

\* handler.py:18-29 and 50-58: the repair connects and counts the rows to fix
MiFixCount(loc, tbl, fate) ==
    LET c == get_db_connection(ConnCause(fate))
        l == Connected(loc, c)
    IN IF c.connection = None THEN FixFailedReturn(l)
       ELSE IF fate = "exec_error" THEN FixFailedReturn(Logged(l, "Lambda fix error"))
       ELSE IF CountInvalid(tbl) > 0
       THEN [l EXCEPT !.pc = "update", !.null_count = CountInvalid(tbl)]
       ELSE [l EXCEPT !.pc = "requery", !.fix_success = "True"]

\* what the store does to the UPDATE and the verifying SELECT of the repair
UpdateFates == {"ok", "exec_error", "verify_error"}

\* handler.py:31-49 and 54-58: the locals after the UPDATE and the SELECT
MiFixUpdate(loc, fate) ==
    IF fate = "ok" THEN [loc EXCEPT !.pc = "requery", !.fix_success = "True"]
    ELSE FixFailedReturn(Logged(loc, "Lambda fix error"))

\* handler.py:222-277 and 322-346: reconnect, count again and answer
MiRequery(loc, tbl, t, fate, most_active) ==
    LET c == get_db_connection(ConnCause(fate))
        l == Connected(loc, c)
    IN IF c.connection = None
       THEN MiDone([l EXCEPT !.connection = "none"],
                   StatsResponse(get_fallback_stats("reconnection_failed")))
       ELSE IF fate = "exec_error"
       THEN MiDone(Logged(l, "Database operation error"),
                   StatsResponse(get_fallback_stats("database_operation_error")))
       ELSE IF CountValid(tbl) > 0
       THEN MiDone([l EXCEPT !.fixed_count = CountValid(tbl)],
                   StatsResponse(LiveStats(tbl, t, most_active, "live_data_fixed")))
       ELSE MiDone(l, StatsResponse(get_fallback_stats("fix_failed")))

-----------------------------------------------------------------------------
(* Initial states: the store as api_handler may find it.  The detections   *)
(* table may hold legacy rows written before site_hash was populated.      *)

Procs == {"r1", "r2"}

LegacyRow(site_hash, detected_at) ==
    [site_hash |-> site_hash, company |-> "OpenAI", estimated_value |-> 1,
     detected_at |-> detected_at]

LegacyRows == {LegacyRow(NULL, 0 - 1), LegacyRow("", 0 - 45)}

LegacyTables == UNION {[1..n -> LegacyRows] : n \in 0..MaxRows}

NoResponse == Response(0, {}, <<>>)
NoEvent == Event("", <<>>, NoneHeaders, NoneBody)
LastInit == [op |-> "none", event |-> NoEvent, resp |-> NoResponse, db |-> "unused", leaked |-> 0]

InitStore(Tables) ==
    /\ registrations = <<>>
    /\ now = 0
    /\ envConfigured \in BOOLEAN
    /\ tableExists \in BOOLEAN
    /\ detections \in (IF tableExists THEN Tables ELSE {<<>>})
    /\ mi = [p \in Procs |-> MiLocals("idle")]
    /\ last = LastInit

-----------------------------------------------------------------------------
(* Actions: one request answered by api_handler, or the clock advancing.   *)

\* what a request that reached the store met there
DbOutcome(fate) ==
    IF get_db_connection(ConnCause(fate)).connection = None THEN "no_connection"
    ELSE IF fate = "exec_error" THEN "exec_error"
    ELSE "ok"

Answered(op, ev, resp, db, leaked) ==
    [op |-> op, event |-> ev, resp |-> resp, db |-> db, leaked |-> leaked]

\* api_handler calls handle_detection_report(body, headers)
DetectionStep(ev, fate) ==
    LET r == handle_detection_report(ev.body, ev.headers, ConnCause(fate), fate = "exec_error")
    IN /\ r.usedStore \/ fate = "ok"
       /\ Len(r.table) <= MaxRows
       /\ detections' = r.table
       /\ last' = Answered("detections", ev, r.resp,
                           IF r.usedStore THEN DbOutcome(fate) ELSE "unused", r.leaked)
       /\ UNCHANGED <<registrations, now, envConfigured, tableExists, mi>>

\* POST /v1/detections
DetectionRequest(HeaderSet, BodySet, FateSet) ==
    \E headers \in HeaderSet, body \in BodySet, fate \in FateSet :
        LET ev == Event("POST", <<"v1", "detections">>, headers, body)
        IN /\ Route(ev.httpMethod, ev.path) = "detections"
           /\ DetectionStep(ev, fate)

\* api_handler calls get_site_insights(path.split('/')[-1], headers)
InsightsStep(ev, fate) ==
    LET site_hash == ev.path[Len(ev.path)]
    IN /\ \E results \in InsightResults(detections, site_hash, now) :
            LET r == get_site_insights(site_hash, ev.headers, ConnCause(fate),
                                       fate = "exec_error", results)
            IN /\ r.usedStore \/ fate = "ok"
               /\ last' = Answered("insights", ev,
                            IF r.raised # None THEN ApiCatchAll(r.raised[1]) ELSE r.resp,
                            IF r.usedStore THEN DbOutcome(fate) ELSE "unused", r.leaked)
       /\ UNCHANGED <<detections, registrations, now, envConfigured, tableExists, mi>>

\* GET /v1/insights/{site_hash}
InsightsRequest(HeaderSet, PathSet, FateSet) ==
    \E headers \in HeaderSet, path \in PathSet, fate \in FateSet :
        LET ev == Event("GET", path, headers, NoneBody)
        IN /\ Route(ev.httpMethod, ev.path) = "insights"
           /\ InsightsStep(ev, fate)

\* api_handler calls handle_registration(body, headers)
RegistrationStep(ev, fate) ==
    LET r == handle_registration(ev.body, ev.headers, ConnCause(fate), fate = "exec_error")
    IN /\ r.usedStore \/ fate = "ok"
       /\ Len(r.table) <= MaxRegs
       /\ registrations' = r.table
       /\ last' = Answered("register", ev, r.resp,
                           IF r.usedStore THEN DbOutcome(fate) ELSE "unused", r.leaked)
       /\ UNCHANGED <<detections, now, envConfigured, tableExists, mi>>

\* POST /v1/register
RegistrationRequest(BodySet, FateSet) ==
    \E body \in BodySet, fate \in FateSet :
        LET ev == Event("POST", <<"v1", "register">>, Headers(<<>>), body)
        IN /\ Route(ev.httpMethod, ev.path) = "register"
           /\ RegistrationStep(ev, fate)

\* api_handler calls get_market_intelligence(), as request p: up to the answer
\* or the repair
MarketStep(p, FateSet) ==
    /\ mi[p].pc \in {"idle", "done"}
    /\ \E fate \in FateSet, most_active \in MostActive(detections, now) :
        mi' = [mi EXCEPT ![p] = MiStart(detections, now, fate, most_active)]
    /\ UNCHANGED <<detections, registrations, now, envConfigured, tableExists, last>>

\* GET /v1/market-intelligence, request p
MarketStart(p) ==
    /\ Route("GET", <<"v1", "market-intelligence">>) = "market-intelligence"
    /\ MarketStep(p, Fates)

\* request p: fix_site_hash_in_lambda up to its count
FixCountStep(p, FateSet) ==
    /\ mi[p].pc = "fix"
    /\ \E fate \in FateSet : mi' = [mi EXCEPT ![p] = MiFixCount(mi[p], detections, fate)]
    /\ UNCHANGED <<detections, registrations, now, envConfigured, tableExists, last>>

MarketFixCount(p) == FixCountStep(p, Fates)

\* request p: the UPDATE of fix_site_hash_in_lambda, and its return
FixUpdateStep(p, FateSet) ==
    /\ mi[p].pc = "update"
    /\ \E fate \in FateSet :
        /\ mi' = [mi EXCEPT ![p] = MiFixUpdate(mi[p], fate)]
        /\ detections' = IF fate = "exec_error" THEN detections ELSE RepairedTable(detections)
    /\ UNCHANGED <<registrations, now, envConfigured, tableExists, last>>

MarketFixUpdate(p) == FixUpdateStep(p, UpdateFates)

\* request p: the queries after the repair, and the answer
RequeryStep(p, FateSet) ==
    /\ mi[p].pc = "requery"
    /\ \E fate \in FateSet, most_active \in MostActive(detections, now) :
        mi' = [mi EXCEPT ![p] = MiRequery(mi[p], detections, now, fate, most_active)]
    /\ UNCHANGED <<detections, registrations, now, envConfigured, tableExists, last>>

MarketRequery(p) == RequeryStep(p, Fates)

\* api_handler(event): any method on any path, through the routing table
ApiRequest(MethodSet, PathSet, HeaderSet, BodySet, FateSet) ==
    \E method \in MethodSet, path \in PathSet, headers \in HeaderSet, body \in BodySet :
        LET ev == Event(method, path, headers, body)
            route == Route(method, path)
        IN \/ route = "market-intelligence" /\ \E p \in Procs : MarketStep(p, FateSet)
           \/ route = "detections" /\ \E fate \in FateSet : DetectionStep(ev, fate)
           \/ route = "register" /\ \E fate \in FateSet : RegistrationStep(ev, fate)
           \/ route = "insights" /\ \E fate \in FateSet : InsightsStep(ev, fate)
           \/ /\ route = "root"
              /\ last' = Answered("root", ev, RootResponse(path), "unused", 0)
              /\ UNCHANGED <<detections, registrations, now, envConfigured, tableExists, mi>>
           \/ /\ route = "none"
              /\ last' = Answered("not_found", ev, NotFound(path, method), "unused", 0)
              /\ UNCHANGED <<detections, registrations, now, envConfigured, tableExists, mi>>

\* time passes
Tick ==
    /\ now < MaxTicks * TickDays
    /\ now' = now + TickDays
    /\ UNCHANGED <<detections, registrations, envConfigured, tableExists, mi, last>>

-----------------------------------------------------------------------------
(* The detection and insights routes under every kind of key and body.     *)

ApiKeys == {"", "123456789", "0123456789", "0123456789ab"}
AnyHeaders == KeyHeaders(ApiKeys) \cup {NoneHeaders}
ValidHeaders == {Headers("x-api-key" :> "0123456789")}

AllFields == {required_fields[i] : i \in 1..Len(required_fields)}

\* a complete detection; detected_at is the caller's, in days
Detection(site_hash, company, value, detected_at) ==
    ("site_hash" :> site_hash) @@ ("company" :> company) @@ ("content_type" :> "article")
        @@ ("estimated_value" :> value) @@ ("detected_at" :> detected_at)

DetectBodies ==
    {ObjectBody(Detection(h, "OpenAI", 1, 0 - 1)) : h \in {NULL, "", "siteA"}}
        \cup {ObjectBody(Restrict(Detection("siteA", "OpenAI", 1, 0 - 1), AllFields \ {"company"})),
              MalformedBody, NumberBody, NoneBody}

DetectPaths == {<<"v1", "insights", "siteA">>, <<"v1", "insights", "">>}

InitDetect == InitStore({<<>>})

NextDetect ==
    \/ DetectionRequest(AnyHeaders, DetectBodies, Fates)
    \/ InsightsRequest(AnyHeaders, DetectPaths, Fates)

SpecDetect == InitDetect /\ [][NextDetect]_vars

(* Detections with every subset of the required fields, under a valid key. *)

FieldBodies ==
    {ObjectBody(Restrict(Detection("siteA", "OpenAI", 1, 0 - 1), Present)) :
        Present \in SUBSET AllFields}

NextFields == DetectionRequest(ValidHeaders, FieldBodies, Fates)

SpecFields == InitDetect /\ [][NextFields]_vars

-----------------------------------------------------------------------------
(* Properties of the detection and insights routes *)

LastKey == DictGet(last.event.headers.d, "x-api-key", "")
LastData == last.event.body.data
ReachedStore == last.op = "detections" /\ last.db # "unused"

\* C4: on the detection route a storage failure (no connection, or the INSERT
\* fails) is answered with 500, and 200 {success, detection_id} is answered
\* only when a row was inserted.
C4_StorageFailureIs500 ==
    ReachedStore =>
        /\ last.db \in {"no_connection", "exec_error"} => last.resp.statusCode = 500
        /\ last.resp.statusCode = 200 =>
              /\ last.resp.body.detection_id # None
              /\ last.resp.body.detection_id[1] \in RowIds(detections)
              /\ detections[last.resp.body.detection_id[1]] = DetectionRow(LastData)

\* C7: every detection row created through the detection route has a
\* site_hash that is neither NULL nor empty (under SpecDetect the table starts
\* empty, so every row was created through the route).
C7_StoredSiteHashNonEmpty == \A i \in RowIds(detections) : HashValid(detections[i])

ObjectWithValidKey ==
    /\ last.op = "detections"
    /\ ~last.event.headers.isNone
    /\ Len(LastKey) >= 10
    /\ last.event.body.kind = "object"

\* C9 as stated: a detection missing any one required field is answered 400
\* with an error naming that field, whichever other fields are present.
C9_EveryMissingFieldNamed ==
    ObjectWithValidKey =>
        \A f \in AllFields :
            f \notin DOMAIN LastData =>
                /\ last.resp.statusCode = 400
                /\ last.resp.body.error = <<"Missing required field: ", f>>

\* C9 amended: a detection missing a required field is answered 400, and the
\* error names the first missing field in the order site_hash, company,
\* content_type, estimated_value, detected_at.
C9_FirstMissingFieldNamed ==
    ObjectWithValidKey =>
        \A i \in 1..5 :
            LET order == <<"site_hash", "company", "content_type", "estimated_value", "detected_at">>
            IN (order[i] \notin DOMAIN LastData /\ \A j \in 1..(i - 1) : order[j] \in DOMAIN LastData)
                  => /\ last.resp.statusCode = 400
                     /\ last.resp.body.error = <<"Missing required field: ", order[i]>>

C9_Witness ==
    /\ ObjectWithValidKey
    /\ DOMAIN LastData = {"site_hash", "content_type", "estimated_value"}
    /\ last.resp.statusCode = 400
    /\ last.resp.body.error = <<"Missing required field: ", "company">>

-----------------------------------------------------------------------------
(* The registration route: repeated registrations, the clock advancing.    *)

Registration(api_key, site_hash) == ("api_key" :> api_key) @@ ("site_hash" :> site_hash)

\* the optional fields a registration may carry
RegistrationOptions ==
    {<<>>, ("plugin_version" :> "1.0"),
     ("plugin_version" :> "2.0") @@ ("registered_at" :> 0 - 5) @@ ("wordpress_version" :> "6.4")}

RegisterBodies ==
    {ObjectBody(Registration("key-A", h) @@ o) : h \in {"siteA", "siteB"}, o \in RegistrationOptions}
        \cup {ObjectBody(Registration("key-B", "siteB")),
              ObjectBody("site_hash" :> "siteA"), ObjectBody("api_key" :> "key-A"),
              MalformedBody, NoneBody}

NextRegister ==
    \/ RegistrationRequest(RegisterBodies, Fates)
    \/ Tick

SpecRegister == InitDetect /\ [][NextRegister]_vars

-----------------------------------------------------------------------------
(* Properties of the registration route *)

\* the step just taken answered a registration with 200
RegisteredStep ==
    /\ last'.op = "register"
    /\ last'.resp.statusCode = 200
    /\ last' # last \/ registrations' # registrations

RowsOfKey(tbl, key) == {i \in 1..Len(tbl) : tbl[i].api_key = key}

\* what every successful registration with key does to the key's row, but for
\* last_seen: one row afterwards, registered_at of the first call, plugin_version
\* of this call
RegistrationKeepsOneRow(data) ==
    LET before == RowsOfKey(registrations, data["api_key"])
        after == RowsOfKey(registrations', data["api_key"])
    IN /\ Cardinality(after) = 1
       /\ \A i \in after :
            /\ registrations'[i].plugin_version = DictGet(data, "plugin_version", "")
            /\ before = {} => registrations'[i].registered_at = DictGet(data, "registered_at", now)
            /\ \A j \in before : registrations'[i].registered_at = registrations[j].registered_at

-----------------------------------------------------------------------------
(* Detections stored and then queried per site, the clock advancing.       *)

StoreBodies ==
    {ObjectBody(Detection(hc[1], hc[2], 1, at)) :
        hc \in {<<"siteA", "OpenAI">>, <<"siteA", "Anthropic">>, <<"siteB", "OpenAI">>},
        at \in {0 - 45, 0 - 10}}

StorePaths == {<<"v1", "insights", h>> : h \in {"siteA", "siteB"}}

NextStore ==
    \/ DetectionRequest(ValidHeaders, StoreBodies, Fates)
    \/ InsightsRequest(ValidHeaders, StorePaths, Fates)
    \/ Tick

SpecStore == InitDetect /\ [][NextStore]_vars

InsightsAnswered == last.op = "insights" /\ last.resp.statusCode = 200
AskedSite == last.event.path[Len(last.event.path)]
Breakdown == last.resp.body.company_breakdown

\* the detections count the breakdown gives for company (0 when it has no entry)
BreakdownCount(company) ==
    IF \E i \in 1..Len(Breakdown) : Breakdown[i].company = company
    THEN (CHOOSE e \in {Breakdown[i] : i \in 1..Len(Breakdown)} : e.company = company).detections
    ELSE 0

StoredCompanies == {detections[i].company : i \in RowIds(detections)}

CountsAllStoredRows ==
    InsightsAnswered =>
        \A c \in StoredCompanies :
            BreakdownCount(c) =
                Cardinality({i \in RowIds(detections) :
                    detections[i].site_hash = AskedSite /\ detections[i].company = c})

CountsRowsOfLast30Days ==
    InsightsAnswered =>
        /\ \A c \in StoredCompanies :
            BreakdownCount(c) =
                Cardinality({i \in RowIds(detections) :
                    /\ detections[i].site_hash = AskedSite
                    /\ detections[i].company = c
                    /\ detections[i].detected_at > now - 30})
        /\ \A i \in 1..Len(Breakdown) : Breakdown[i].detections >= 1
        /\ \A i, j \in 1..Len(Breakdown) : Breakdown[i].company = Breakdown[j].company => i = j

-----------------------------------------------------------------------------
(* Market-intelligence requests, two of them at a time, beside detections  *)
(* being stored.                                                            *)

MarketBodies ==
    {ObjectBody(Detection("siteA", "Anthropic", 2, 0 - 1)),
     ObjectBody(Detection("", "OpenAI", 1, 0 - 45))}

InitMarket == InitStore(LegacyTables)

NextMarket ==
    \/ \E p \in Procs : MarketStart(p)
    \/ \E p \in Procs : MarketFixCount(p)
    \/ \E p \in Procs : MarketFixUpdate(p)
    \/ \E p \in Procs : MarketRequery(p)
    \/ DetectionRequest(ValidHeaders, MarketBodies, {"ok"})
    \/ Tick

SpecMarket == InitMarket /\ [][NextMarket]_vars

-----------------------------------------------------------------------------
(* Properties of the market-intelligence route *)

Answer(p) == mi[p].resp
MarketDone(p) == mi[p].pc = "done"

\* request p found the defect: no row with a valid site_hash, some without
SawDefect(p) == mi[p].valid_hash_count = 0 /\ mi[p].invalid_hash_count > 0

\* every connection and statement of request p went through
StoreReachable(p) == mi[p].errors = {}

\* C1 as stated: a request that finds only rows with empty or NULL site_hash,
\* with the store reachable, answers live_data_fixed with total_sites >= 1.
C1_FixedWithASite ==
    \A p \in Procs :
        (MarketDone(p) /\ SawDefect(p) /\ StoreReachable(p)) =>
            /\ Answer(p).statusCode = 200
            /\ Answer(p).body.status = <<"live_data_fixed">>
            /\ Answer(p).body.total_sites >= 1

\* the step in which request p gets its answer
Answers(p) == mi'[p].pc = "done" /\ mi'[p] # mi[p]

\* C1 amended: such a request runs the repair and answers live_data_fixed;
\* total_sites counts the sites of the rows detected within the last 30 days,
\* so it is >= 1 exactly when such a row exists, and 0 when every row is older.
C1_FixedWithRecentSites ==
    [][\A p \in Procs :
        (Answers(p) /\ SawDefect(p)' /\ StoreReachable(p)') =>
            /\ mi[p].pc = "requery"
            /\ mi'[p].fix_success = "True"
            /\ mi'[p].resp.statusCode = 200
            /\ mi'[p].resp.body.status = <<"live_data_fixed">>
            /\ (mi'[p].resp.body.total_sites >= 1)
                  <=> \E i \in RowIds(detections) :
                         /\ detections[i].site_hash \notin {NULL, ""}
                         /\ detections[i].detected_at > now - 30]_vars

\* a repaired table with a recent row, answered live_data_fixed with one site
C1_Witness ==
    \E p \in Procs :
        /\ MarketDone(p) /\ SawDefect(p) /\ StoreReachable(p)
        /\ Answer(p).statusCode = 200
        /\ Answer(p).body.status = <<"live_data_fixed">>
        /\ Answer(p).body.total_sites = 1
        /\ \E i \in RowIds(detections) : detections[i].site_hash = correct_site_hash

\* C2: when the defect was found but healing fails (the repair returns False,
\* or no row has a valid site_hash after it), the request answers 200 with the
\* status fallback_fix_failed.
C2_FixFailedIsFallback ==
    \A p \in Procs :
        (MarketDone(p) /\ SawDefect(p)
            /\ \/ mi[p].fix_success = "False"
               \/ mi[p].fix_success = "True" /\ mi[p].connection # "none"
                    /\ mi[p].errors = {} /\ mi[p].fixed_count = 0) =>
            /\ Answer(p).statusCode = 200
            /\ Answer(p).body.status = <<"fallback_", "fix_failed">>

\* the first get_db_connection of request p returned None
NoConnection(p) == MarketDone(p) /\ mi[p].connection = "none" /\ mi[p].fix_success = "unset"

ExceptionTexts == {AlreadyClosed, "'NoneType' object has no attribute 'get'"}

\* the strings a response body is made of
BodyTexts(body) == UNION {{body[f][i] : i \in 1..Len(body[f])} : f \in DOMAIN body}

\* C10: a 500 response carries a generic message only, never the text of the
\* exception that caused it (api_handler's catch-all and the handlers' own).
C10_NoExceptionTextIn500 ==
    /\ last.resp.statusCode = 500 => BodyTexts(last.resp.body) \cap ExceptionTexts = {}
    /\ \A p \in Procs :
        Answer(p).statusCode = 500 => BodyTexts(Answer(p).body) \cap ExceptionTexts = {}

-----------------------------------------------------------------------------
(* Every method on every path, through api_handler's routing table. *)

Methods == {"GET", "POST", "DELETE", "PUT"}

Paths ==
    {<<"">>, <<"v1", "market-intelligence">>, <<"v1", "detections">>, <<"v1", "register">>,
     <<"v1", "insights", "siteA">>, <<"v1", "insights", "">>, <<"v1", "insights">>,
     <<"v1", "detections", "">>, <<"v2", "detections">>, <<"v1">>}

RouteBodies == {ObjectBody(Detection("siteA", "OpenAI", 1, 0 - 1)), NoneBody}

NextRoutes == ApiRequest(Methods, Paths, ValidHeaders, RouteBodies, {"ok"})

SpecRoutes == InitDetect /\ [][NextRoutes]_vars

\* the five routes: GET /v1/market-intelligence, POST /v1/detections,
\* POST /v1/register, GET /v1/insights/{site_hash}, GET /
OneOfFiveRoutes(method, path) ==
    \/ method = "GET" /\ path = <<"v1", "market-intelligence">>
    \/ method = "POST" /\ path = <<"v1", "detections">>
    \/ method = "POST" /\ path = <<"v1", "register">>
    \/ method = "GET" /\ Len(path) >= 3 /\ SubSeq(path, 1, 2) = <<"v1", "insights">>
    \/ method = "GET" /\ path = <<"">>

\* C11: a request whose method and path match none of the five routes is
\* answered 404 with the path and the method echoed in the body; no handler
\* is called, no exception is raised and the store is left as it was.
C11_UnknownRouteIs404 ==
    [][\A method \in Methods, path \in Paths :
        (last' # last /\ last'.event.httpMethod = method /\ last'.event.path = path
            /\ ~OneOfFiveRoutes(method, path)) =>
            /\ last'.op = "not_found"
            /\ last'.resp.statusCode = 404
            /\ last'.resp.body.path_received = path
            /\ last'.resp.body.method = method
            /\ last'.db = "unused"
            /\ UNCHANGED <<detections, registrations, mi>>]_vars

\* DELETE /v1/detections answered 404 after a detection was stored by POST
C11_Witness ==
    /\ last.op = "not_found"
    /\ last.event.httpMethod = "DELETE"
    /\ last.event.path = <<"v1", "detections">>
    /\ last.resp.statusCode = 404
    /\ last.resp.body.path_received = <<"v1", "detections">>
    /\ last.resp.body.method = "DELETE"
    /\ Len(detections) = 1

-----------------------------------------------------------------------------
(* The repair run again *)

\* a step of a market-intelligence request, the repair's steps included
MarketStepTaken == mi' # mi

\* C12: once no detection row has a NULL or empty site_hash, a further run of
\* the repair, or of a market-intelligence request, leaves every detection
\* row as it is: the repair run twice gives the store of the repair run once.
C12_RepairIdempotent ==
    [][(MarketStepTaken /\ \A i \in RowIds(detections) : detections[i].site_hash \notin {NULL, ""})
        => detections' = detections]_vars

\* one request repaired the rows, the other ran the repair after it and found
\* nothing to fix
C12_Witness ==
    \E p, q \in Procs :
        /\ mi[p].fix_success = "True" /\ mi[p].null_count > 0
        /\ MarketDone(q) /\ SawDefect(q) /\ mi[q].fix_success = "True" /\ mi[q].null_count = 0
        /\ Len(detections) > 0
        /\ \A i \in RowIds(detections) : detections[i].site_hash = correct_site_hash

-----------------------------------------------------------------------------
(* Two market-intelligence requests over legacy rows, their steps          *)
(* interleaved in every order, with a store that answers every statement.  *)

NextRepair ==
    \/ \E p \in Procs : MarketStep(p, {"ok"})
    \/ \E p \in Procs : FixCountStep(p, {"ok"})
    \/ \E p \in Procs : FixUpdateStep(p, {"ok"})
    \/ \E p \in Procs : RequeryStep(p, {"ok"})
    \/ Tick

SpecRepair == InitMarket /\ [][NextRepair]_vars

\* C13: two requests whose repairs run over the same NULL/empty rows, their
\* check, UPDATE and re-query steps interleaved in any order, leave every such
\* row with the one fallback hash, and neither ends in an error response:
\* both answer 200 live_data_fixed.
C13_ConcurrentRepairsConverge ==
    \A p \in Procs :
        (MarketDone(p) /\ SawDefect(p)) =>
            /\ Answer(p).statusCode = 200
            /\ Answer(p).body.status = <<"live_data_fixed">>
            /\ mi[p].closeErrors = 0
            /\ \A i \in RowIds(detections) : detections[i].site_hash = correct_site_hash

\* both requests counted rows to fix before either had updated them, and both
\* ran the UPDATE
C13_Witness ==
    /\ \A p \in Procs :
        /\ MarketDone(p) /\ SawDefect(p)
        /\ mi[p].fix_success = "True" /\ mi[p].null_count = Len(detections)
        /\ Answer(p).body.status = <<"live_data_fixed">>
    /\ Len(detections) = MaxRows
    /\ \A i \in RowIds(detections) : detections[i].site_hash = correct_site_hash

-----------------------------------------------------------------------------
(* What the repair writes *)

\* request p's repair returns True from its UPDATE in this step
RepairSucceeds(p) ==
    mi[p].pc = "update" /\ mi'[p].pc = "requery" /\ mi'[p].fix_success = "True"

\* C14: after a successful repair every row that had a NULL or empty
\* site_hash holds the fallback hash, no row with a NULL or empty site_hash
\* remains, and every row that had a non-empty site_hash keeps it.
C14_RepairRewritesOnlyLegacyRows ==
    [][\A p \in Procs :
        RepairSucceeds(p) =>
            /\ Len(detections') = Len(detections)
            /\ \A i \in RowIds(detections) :
                /\ detections[i].site_hash \in {NULL, ""}
                    => detections'[i].site_hash = correct_site_hash
                /\ detections[i].site_hash \notin {NULL, ""}
                    => detections'[i].site_hash = detections[i].site_hash
                /\ detections'[i].site_hash \notin {NULL, ""}]_vars

\* a repair that rewrote an empty site_hash and left the row of siteA alone
C14_Witness ==
    \E p \in Procs :
        /\ mi[p].pc = "requery" /\ mi[p].fix_success = "True" /\ mi[p].null_count = 1
        /\ Len(detections) = 2
        /\ detections[1].site_hash = correct_site_hash
        /\ detections[1].detected_at = 0 - 45
        /\ detections[2].site_hash = "siteA"

-----------------------------------------------------------------------------
(* Requests on the five routes in any order, over a store with legacy rows, *)
(* with market-intelligence requests in the middle of their repairs.       *)

FiveRoutePaths ==
    {<<"">>, <<"v1", "market-intelligence">>, <<"v1", "detections">>, <<"v1", "register">>,
     <<"v1", "insights", "siteA">>}

\* a body that the detection route and the registration route both accept
AllBodies ==
    {ObjectBody(Detection("siteA", "Anthropic", 2, 0 - 1) @@ ("api_key" :> "key-A"))}

NextAll ==
    \/ ApiRequest({"GET", "POST"}, FiveRoutePaths, ValidHeaders, AllBodies, {"ok"})
    \/ \E p \in Procs : MarketFixCount(p)
    \/ \E p \in Procs : MarketFixUpdate(p)
    \/ \E p \in Procs : MarketRequery(p)

SpecAll == InitMarket /\ [][NextAll]_vars

\* C15: no step of any request deletes a detection row or changes a field of
\* an existing one, except that the repair may write the fallback hash into
\* the site_hash of a row whose site_hash was NULL or empty.
C15_DetectionsImmutable ==
    [][/\ Len(detections') >= Len(detections)
       /\ \A i \in RowIds(detections) :
            \/ detections'[i] = detections[i]
            \/ /\ detections[i].site_hash \in {NULL, ""}
               /\ mi' # mi
               /\ detections'[i] = [detections[i] EXCEPT !.site_hash = correct_site_hash]]_vars

\* a stored detection of siteA that has since seen a repair, a registration,
\* an insights request and a second detection beside it
C15_Witness ==
    /\ Len(detections) = 2
    /\ detections[1].site_hash = correct_site_hash
    /\ detections[2].site_hash = "siteA"
    /\ Len(registrations) > 0
    /\ last.op = "insights"
    /\ \E p \in Procs : MarketDone(p) /\ mi[p].fix_success = "True" /\ mi[p].null_count > 0

-----------------------------------------------------------------------------
(* When the repair runs *)

\* request p takes its first step: connect, count, and answer or go to repair
Starts(p) == mi[p].pc \in {"idle", "done"} /\ mi'[p] # mi[p]

\* the step is one of request p's own
StepOf(p) == mi'[p] # mi[p]

\* C16: a market-intelligence request runs the repair only if no row has a
\* non-empty site_hash and some row has a NULL or empty one; when some row
\* has a non-empty site_hash, or the table is empty, the request writes
\* nothing to the store and answers with status live_data.
C16_RepairOnlyOnDefect ==
    [][\A p \in Procs :
        LET valid == Cardinality({i \in RowIds(detections) :
                                    detections[i].site_hash \notin {NULL, ""}})
            invalid == Cardinality({i \in RowIds(detections) :
                                    detections[i].site_hash \in {NULL, ""}})
        IN /\ (StepOf(p) /\ mi'[p].pc = "fix") => (Starts(p) /\ valid = 0 /\ invalid > 0)
           /\ (StepOf(p) /\ mi[p].pc \in {"update", "requery"}) => SawDefect(p)
           /\ (Starts(p) /\ StoreReachable(p)' /\ (valid > 0 \/ Len(detections) = 0)) =>
                /\ mi'[p].pc = "done"
                /\ mi'[p].resp.statusCode = 200
                /\ mi'[p].resp.body.status = <<"live_data">>
                /\ detections' = detections]_vars

\* a request that met one stored row of siteA beside a row with an empty
\* site_hash, and answered live_data without a repair
C16_Witness ==
    \E p \in Procs :
        /\ MarketDone(p) /\ StoreReachable(p)
        /\ mi[p].valid_hash_count = 1 /\ mi[p].invalid_hash_count = 1
        /\ mi[p].fix_success = "unset"
        /\ Answer(p).statusCode = 200
        /\ Answer(p).body.status = <<"live_data">>
        /\ \E i \in RowIds(detections) : detections[i].site_hash = ""

-----------------------------------------------------------------------------
(* What a repeated registration leaves alone *)

\* C17: a registration with an api_key that already has a row leaves that
\* row's site_hash and registered_at as they were, whatever the request
\* supplies; only last_seen and plugin_version change, and no other row does.
C17_ReRegistrationFrame ==
    [][RegisteredStep =>
        LET data == last'.event.body.data
            before == RowsOfKey(registrations, data["api_key"])
        IN before # {} =>
            /\ Len(registrations') = Len(registrations)
            /\ \A i \in 1..Len(registrations) :
                IF i \in before
                THEN /\ registrations'[i].site_hash = registrations[i].site_hash
                     /\ registrations'[i].registered_at = registrations[i].registered_at
                     /\ registrations'[i] =
                            [registrations[i] EXCEPT
                                !.last_seen = registrations'[i].last_seen,
                                !.plugin_version = registrations'[i].plugin_version]
                ELSE registrations'[i] = registrations[i]]_vars

\* key-A registered for siteA on day 0, then again for siteB with another
\* registered_at and wordpress_version: the row keeps the first call's
C17_Witness ==
    /\ last.op = "register"
    /\ last.resp.statusCode = 200
    /\ last.event.body.kind = "object"
    /\ "registered_at" \in DOMAIN last.event.body.data
    /\ last.event.body.data["api_key"] = "key-A"
    /\ last.event.body.data["site_hash"] = "siteB"
    /\ \E i \in 1..Len(registrations) :
        /\ registrations[i].api_key = "key-A"
        /\ registrations[i].site_hash = "siteA"
        /\ registrations[i].registered_at = 0
        /\ registrations[i].wordpress_version = ""
        /\ registrations[i].plugin_version = "2.0"
        /\ registrations[i].last_seen.written

-----------------------------------------------------------------------------
(* Failures on the registration route *)

\* the registration last answered carried a JSON object with api_key and site_hash
RegistrationInputValid ==
    /\ last.event.body.kind = "object"
    /\ {"api_key", "site_hash"} \subseteq DOMAIN last.event.body.data

\* C18: on the registration route a connection that cannot be acquired, or an
\* upsert that fails against the store, is answered 500; 400 is answered only
\* for caller-input errors (malformed JSON, api_key or site_hash missing).
C18_StoreFailureIs500 ==
    last.op = "register" =>
        /\ last.db \in {"no_connection", "exec_error"} => last.resp.statusCode = 500
        /\ last.resp.statusCode = 400 => ~RegistrationInputValid

-----------------------------------------------------------------------------
(* Missing configuration *)

\* C19: when one of DB_HOST, DB_USER, DB_PASSWORD, DB_NAME is unset, every
\* request that needs the store (detections, register, insights,
\* market-intelligence) is answered 500.
C19_MissingConfigIs500 ==
    ~envConfigured =>
        /\ last.db # "unused" => last.resp.statusCode = 500
        /\ \A p \in Procs : MarketDone(p) => Answer(p).statusCode = 500

-----------------------------------------------------------------------------
(* get_db_connection *)

\* C20: get_db_connection never raises to its caller: with configuration
\* missing it returns no connection without attempting a network connection,
\* and when the connect or a test query fails it returns no connection.
C20_ConnectionNeverRaises ==
    \A cause \in ConnCauses :
        LET c == get_db_connection(cause)
        IN /\ ~c.raised
           /\ ~envConfigured => (c.connection = <<>> /\ ~c.attempted)
           /\ cause \in {"connect_error", "query_error"} => c.connection = <<>>
           /\ (envConfigured /\ tableExists /\ cause = "ok") => c.connection # <<>>

\* with configuration missing, an insights request called get_db_connection,
\* got no connection and answered 'Database unavailable'
C20_Witness ==
    /\ ~envConfigured
    /\ last.op = "insights"
    /\ last.db = "no_connection"
    /\ last.leaked = 0
    /\ last.resp.statusCode = 500
    /\ last.resp.body.error = <<"Database unavailable">>

-----------------------------------------------------------------------------
(* Rejected detections *)

\* the step answers a detection request with 401 or 400
DetectionRejected ==
    /\ last' # last
    /\ last'.op = "detections"
    /\ last'.resp.statusCode \in {400, 401}

\* C21: a detection request rejected with 401 (invalid key) or 400 (malformed
\* JSON, missing required field) leaves the detections table as it was, and
\* acquires no connection: validation is over before any insert is tried.
C21_RejectedDetectionWritesNothing ==
    [][DetectionRejected =>
        /\ detections' = detections
        /\ last'.db = "unused"
        /\ last'.leaked = 0]_vars

\* beside a row stored before, a detection without company is answered 400
C21_Witness ==
    /\ last.op = "detections"
    /\ last.resp.statusCode = 400
    /\ last.resp.body.error = <<"Missing required field: ", "company">>
    /\ last.db = "unused"
    /\ Len(detections) = 1

-----------------------------------------------------------------------------
(* Response headers *)

\* C22: every response of api_handler, on every route and with every status,
\* carries Content-Type: application/json, and every response of the
\* market-intelligence route carries Access-Control-Allow-Origin: * as well.
C22_HeadersOnEveryResponse ==
    /\ last.op # "none" => <<"Content-Type", "application/json">> \in last.resp.headers
    /\ \A p \in Procs :
        MarketDone(p) =>
            /\ <<"Content-Type", "application/json">> \in Answer(p).headers
            /\ <<"Access-Control-Allow-Origin", "*">> \in Answer(p).headers

-----------------------------------------------------------------------------
(* The breakdown of an insights request *)

\* the step answers an insights request that reached the store and queried it
InsightsQueried == last' # last /\ last'.op = "insights" /\ last'.db = "ok"

\* the rows of the site asked for, detected within the 30 days before the request
RecentRowsOfAskedSite ==
    {i \in RowIds(detections) :
        /\ detections[i].site_hash = last'.event.path[Len(last'.event.path)]
        /\ detections[i].detected_at > now - 30}

\* C23: an insights request with a valid key, for a site_hash without
\* detections in the last 30 days, is answered 200 with an empty
\* company_breakdown, not with an error.
C23_NoDetectionsIsEmptyBreakdown ==
    [][(InsightsQueried /\ RecentRowsOfAskedSite = {}) =>
        /\ last'.resp.statusCode = 200
        /\ last'.resp.body.company_breakdown = <<>>
        /\ last'.resp.body.site_hash = last'.event.path[Len(last'.event.path)]]_vars

\* siteA asked for while its only detection is 45 days old and siteB has a
\* recent one
C23_Witness ==
    /\ InsightsAnswered
    /\ AskedSite = "siteA"
    /\ Breakdown = <<>>
    /\ \E i \in RowIds(detections) :
        detections[i].site_hash = "siteA" /\ detections[i].detected_at <= now - 30
    /\ \E i \in RowIds(detections) :
        detections[i].site_hash = "siteB" /\ detections[i].detected_at > now - 30

-----------------------------------------------------------------------------
(* Detections of one site by two companies with different values, queried. *)

BreakdownBodies ==
    {ObjectBody(Detection("siteA", "OpenAI", 1, 0 - 10)),
     ObjectBody(Detection("siteA", "Anthropic", 2, 0 - 10)),
     ObjectBody(Detection("siteA", "Anthropic", 3, 0 - 45)),
     ObjectBody(Detection("siteB", "Google", 3, 0 - 10))}

NextBreakdown ==
    \/ DetectionRequest(ValidHeaders, BreakdownBodies, {"ok"})
    \/ InsightsRequest(ValidHeaders, StorePaths, Fates)
    \/ Tick

SpecBreakdown == InitDetect /\ [][NextBreakdown]_vars

\* C24: the company_breakdown of an answered insights request has exactly one
\* entry per company with detections of the site within the last 30 days,
\* each with that company's count and total, ordered by total_value descending.
C24_OneEntryPerCompanyByTotal ==
    [][(InsightsQueried /\ last'.resp.statusCode = 200) =>
        LET b == last'.resp.body.company_breakdown
            rows(c) == {i \in RecentRowsOfAskedSite : detections[i].company = c}
        IN /\ {b[i].company : i \in 1..Len(b)}
                = {detections[i].company : i \in RecentRowsOfAskedSite}
           /\ \A i, j \in 1..Len(b) : b[i].company = b[j].company => i = j
           /\ \A i \in 1..Len(b) :
                /\ b[i].detections = Cardinality(rows(b[i].company))
                /\ b[i].total_value = SumOver(detections, rows(b[i].company))
           /\ \A i, j \in 1..Len(b) : i < j => b[i].total_value >= b[j].total_value]_vars

\* siteA with one detection of OpenAI (value 1) stored before one of
\* Anthropic (value 2): Anthropic comes first in the breakdown
C24_Witness ==
    /\ InsightsAnswered
    /\ AskedSite = "siteA"
    /\ Len(Breakdown) = 2
    /\ Breakdown[1].company = "Anthropic" /\ Breakdown[1].total_value = 2
    /\ Breakdown[2].company = "OpenAI" /\ Breakdown[2].total_value = 1
    /\ detections[1].company = "OpenAI"

-----------------------------------------------------------------------------
(* The detections table missing *)

\* request p's first get_db_connection reached the database: the connect
\* went through, and the session it opened is the one left behind
ReachedDatabase(p) == mi[p].fix_success = "unset" /\ mi[p].leaked > 0

\* C25: when the store is reachable but the detections table does not exist,
\* a market-intelligence request answers 200 with the fallback payload tagged
\* fallback_no_detections_table, not fallback_no_database_connection.
C25_MissingTableIsTagged ==
    \A p \in Procs :
        (MarketDone(p) /\ envConfigured /\ ~tableExists /\ ReachedDatabase(p)) =>
            /\ Answer(p).statusCode = 200
            /\ Answer(p).body.status = <<"fallback_", "no_detections_table">>

-----------------------------------------------------------------------------
(* The statistics of the no-repair path *)

\* request p answers live_data in this step
AnswersLiveData(p) ==
    /\ Answers(p)
    /\ mi'[p].resp.statusCode = 200
    /\ mi'[p].resp.body.status = <<"live_data">>

\* the rows with a non-empty site_hash detected within the last 30 days
RecentValidRows ==
    {i \in RowIds(detections) :
        /\ detections[i].site_hash \notin {NULL, ""}
        /\ detections[i].detected_at > now - 30}

\* C26: on the no-repair path (status live_data) total_detections is the
\* number of rows with a non-empty site_hash detected within the last 30
\* days, total_sites the number of distinct site_hash values among them, and
\* on an empty table both are 0 and most_active_company is "N/A".
C26_LiveDataCounts ==
    [][\A p \in Procs :
        AnswersLiveData(p) =>
            /\ mi'[p].resp.body.total_detections = Cardinality(RecentValidRows)
            /\ mi'[p].resp.body.total_sites
                    = Cardinality({detections[i].site_hash : i \in RecentValidRows})
            /\ Len(detections) = 0 =>
                    /\ mi'[p].resp.body.total_detections = 0
                    /\ mi'[p].resp.body.total_sites = 0
                    /\ mi'[p].resp.body.most_active_company = "N/A"]_vars

\* two recent detections of siteA: two detections, one site
C26_Witness ==
    \E p \in Procs :
        /\ MarketDone(p)
        /\ Answer(p).statusCode = 200
        /\ Answer(p).body.status = <<"live_data">>
        /\ Answer(p).body.total_detections = 2
        /\ Answer(p).body.total_sites = 1
        /\ Answer(p).body.most_active_company = "Anthropic"

-----------------------------------------------------------------------------
(* Connections closed *)

\* C27: every connection a request gets from get_db_connection is closed
\* exactly once before the request returns, on every path: no handler returns
\* with its connection still open, and none closes a connection already closed.
C27_ConnectionsClosedOnce ==
    /\ last.db \in {"ok", "exec_error"} => last.leaked = 0
    /\ \A p \in Procs : MarketDone(p) => mi[p].closeErrors = 0

-----------------------------------------------------------------------------
(* The order of the checks on the detection route *)

\* the detection last answered came with a headers dict whose key is invalid
LastKeyInvalid ==
    /\ ~last.event.headers.isNone
    /\ LET key == DictGet(last.event.headers.d, "x-api-key", "") IN Len(key) < 10

\* its body is malformed JSON, or an object without some required field
LastBodyBad ==
    \/ last.event.body.kind = "malformed"
    \/ /\ last.event.body.kind = "object"
       /\ \E i \in 1..Len(required_fields) : required_fields[i] \notin DOMAIN last.event.body.data

\* C28: on the detection route the key is validated first, then the JSON is
\* parsed, then the required fields are looked for, then the row is inserted:
\* an invalid key gets 401 even with a malformed body or a missing field, and
\* a valid key with malformed JSON gets 400 "Invalid JSON".
C28_ChecksInOrder ==
    last.op = "detections" =>
        /\ (LastKeyInvalid /\ LastBodyBad) =>
                /\ last.resp.statusCode = 401
                /\ last.resp.body.error = <<"Invalid API key">>
        /\ (~last.event.headers.isNone /\ ~LastKeyInvalid /\ last.event.body.kind = "malformed") =>
                /\ last.resp.statusCode = 400
                /\ last.resp.body.error = <<"Invalid JSON">>
        /\ (~last.event.headers.isNone /\ ~LastKeyInvalid /\ last.event.body.kind = "object"
                /\ LastBodyBad) =>
                /\ last.resp.statusCode = 400
                /\ last.resp.body.error[1] = "Missing required field: "
        /\ last.db # "unused" => (~LastKeyInvalid /\ ~LastBodyBad)

\* a 9-character key with a malformed body: 401, not 400
C28_Witness ==
    /\ last.op = "detections"
    /\ DictGet(last.event.headers.d, "x-api-key", "") = "123456789"
    /\ last.event.body.kind = "malformed"
    /\ last.resp.statusCode = 401

====
